---- MODULE Spec2Model ----
(***************************************************************************)
(* Model of the HTTP message layer of rust-http-server:                    *)
(*   - src/src/http.rs            RequestParser, the character-stream      *)
(*                                 request parser (the one main.rs uses),   *)
(*   - src/src/models/request.rs  HttpRequest::new, the line-splitting     *)
(*                                 request parser,                          *)
(*   - src/src/models/mod.rs      HttpVersion: FromStr and Display,         *)
(*   - src/src/models/response.rs HttpStatusCode, HttpResponse and Display. *)
(* Text is modelled as a sequence of one-character strings, so that the    *)
(* cursor, every peek and every consumed character are explicit.           *)
(***************************************************************************)
EXTENDS Integers, Sequences, FiniteSets, TLC

VARIABLES
    parts,          \* how the input text was put together (history only)
    input,          \* the text handed to RequestParser::from_str
    pos,            \* the cursor: index of the character peek() returns
    pc,             \* the rule parse_request runs next
    method_str,     \* the token parse_method collected
    method,         \* HttpRequest.method
    path,           \* HttpRequest.path
    http_version,   \* HttpRequest.http_version
    headers,        \* HttpRequest.headers (a map: key -> value)
    body,           \* HttpRequest.body
    result,         \* "none" while running, "Ok", or the Error variant
    verEnd,         \* cursor when parse_version returned Ok (0: it did not)
    hdrEnd,         \* cursor when parse_headers returned Ok (0: it did not)
    response,       \* an HttpResponse value
    order,          \* the order in which headers.iter() yields the keys
    text,           \* the text Display for HttpResponse wrote
    vtoken,         \* a version token handed to HttpVersion::from_str
    parsed,         \* what HttpVersion::from_str returned
    reparsed,       \* what RequestParser::parse_version returned on text
    rpc,            \* the step of the response side
    lines,          \* the lines HttpRequest::new has not read yet (str::lines)
    test_i,         \* match_str: index in the literal of the next test_char
    digits,         \* parse_usize: the digits collected so far
    ver_major,      \* parse_version: the local major
    header_key,     \* parse_header: the key collected so far
    header_value,   \* parse_header: the value collected so far
    taken           \* every character characters.next() returned, in order

parserVars == <<parts, input, pos, pc, method_str, method, path, http_version,
                headers, body, result, verEnd, hdrEnd>>

responseVars == <<response, order, text, vtoken, parsed, reparsed, rpc>>

stepVars == <<test_i, digits, ver_major, header_key, header_value, taken>>

vars == <<parserVars, responseVars, lines, stepVars>>

----------------------------------------------------------------------------
(* Characters and text                                                      *)

CR == "\r"
LF == "\n"
SP == " "
CRLF == <<CR, LF>>

Upper == {"A","B","C","D","E","F","G","H","I","J","K","L","M",
          "N","O","P","Q","R","S","T","U","V","W","X","Y","Z"}

DigitSeq == <<"0","1","2","3","4","5","6","7","8","9">>

Digit == {DigitSeq[i] : i \in 1..10}

DigitVal(c) == (CHOOSE i \in 1..10 : DigitSeq[i] = c) - 1

\* t ends with lit
OccursAtEnd(t, lit) ==
    /\ Len(t) >= Len(lit)
    /\ SubSeq(t, Len(t) - Len(lit) + 1, Len(t)) = lit

\* str::starts_with
starts_with(t, lit) == Len(t) >= Len(lit) /\ SubSeq(t, 1, Len(lit)) = lit

\* input.chars().peekable(): peek() is Some(inp[p]) while p <= Len(inp)
HasPeek(inp, p) == p <= Len(inp)

Rest(inp, p) == SubSeq(inp, p, Len(inp))

----------------------------------------------------------------------------
(* Integers as decimal text                                                 *)

\* usize::MAX = 18446744073709551615 as decimal digits (64-bit target)
UsizeMaxDigits == <<"1","8","4","4","6","7","4","4","0","7",
                    "3","7","0","9","5","5","1","6","1","5">>

\* u32::MAX = 4294967295 as decimal digits
U32MaxDigits == <<"4","2","9","4","9","6","7","2","9","5">>

RECURSIVE StripZeros(_)
StripZeros(d) ==
    IF Len(d) > 1 /\ d[1] = "0" THEN StripZeros(Tail(d)) ELSE d

RECURSIVE LexGreater(_, _)
LexGreater(a, b) ==
    IF a = <<>> THEN FALSE
    ELSE IF DigitVal(a[1]) # DigitVal(b[1]) THEN DigitVal(a[1]) > DigitVal(b[1])
    ELSE LexGreater(Tail(a), Tail(b))

\* the digit run denotes a number above the type's maximum
Overflows(d, max) ==
    LET s == StripZeros(d)
    IN  \/ Len(s) > Len(max)
        \/ Len(s) = Len(max) /\ LexGreater(s, max)

RECURSIVE DigitsValue(_)
DigitsValue(d) ==
    IF d = <<>> THEN 0
    ELSE 10 * DigitsValue(SubSeq(d, 1, Len(d) - 1)) + DigitVal(d[Len(d)])

\* usize::from_str_radix(&digits, 10) on a run of ASCII digits
from_str_radix(d, max) ==
    IF d = <<>> THEN [ok |-> FALSE, val |-> 0]
    ELSE IF Overflows(d, max) THEN [ok |-> FALSE, val |-> 0]
    ELSE [ok |-> TRUE, val |-> DigitsValue(d)]

\* Display of an unsigned integer
RECURSIVE ToDigits(_)
ToDigits(n) ==
    IF n < 10 THEN <<DigitSeq[n + 1]>>
    ELSE ToDigits(n \div 10) \o <<DigitSeq[(n % 10) + 1]>>

----------------------------------------------------------------------------
(* http.rs: HttpMethod                                                      *)

HttpMethod == {"GET", "HEAD", "POST", "PUT", "DELETE", "CONNECT",
               "OPTIONS", "TRACE", "PATCH"}

\* impl FromStr for HttpMethod: Ok(variant) or Err(InvalidMethod(s))
HttpMethod_from_str(s) ==
    CASE s = <<"G","E","T">>                     -> [ok |-> TRUE, method |-> "GET"]
      [] s = <<"H","E","A","D">>                 -> [ok |-> TRUE, method |-> "HEAD"]
      [] s = <<"P","O","S","T">>                 -> [ok |-> TRUE, method |-> "POST"]
      [] s = <<"P","U","T">>                     -> [ok |-> TRUE, method |-> "PUT"]
      [] s = <<"D","E","L","E","T","E">>         -> [ok |-> TRUE, method |-> "DELETE"]
      [] s = <<"C","O","N","N","E","C","T">>     -> [ok |-> TRUE, method |-> "CONNECT"]
      [] s = <<"O","P","T","I","O","N","S">>     -> [ok |-> TRUE, method |-> "OPTIONS"]
      [] s = <<"T","R","A","C","E">>             -> [ok |-> TRUE, method |-> "TRACE"]
      [] s = <<"P","A","T","C","H">>             -> [ok |-> TRUE, method |-> "PATCH"]
      [] OTHER                                   -> [ok |-> FALSE, method |-> "none"]

----------------------------------------------------------------------------
(* http.rs: RequestParser, one operator per method.  Each takes the text   *)
(* and the cursor and returns its value with the cursor it leaves behind.   *)

\* match_str: compare literal character by character, consuming each match;
\* on a mismatch (or end of input) return false, the matched part stays consumed
RECURSIVE match_from(_, _, _, _)
match_from(inp, p, lit, i) ==
    IF i > Len(lit) THEN [ok |-> TRUE, pos |-> p]
    ELSE IF ~HasPeek(inp, p) \/ inp[p] # lit[i] THEN [ok |-> FALSE, pos |-> p]
    ELSE match_from(inp, p + 1, lit, i + 1)

match_str(inp, p, lit) == match_from(inp, p, lit, 1)

\* while peek().is_some_and(|c| c in S) { next() }
RECURSIVE take_while_in(_, _, _)
take_while_in(inp, p, S) ==
    IF HasPeek(inp, p) /\ inp[p] \in S THEN take_while_in(inp, p + 1, S) ELSE p

\* while peek().is_some_and(|c| c not in S) { next() }
RECURSIVE take_while_not_in(_, _, _)
take_while_not_in(inp, p, S) ==
    IF HasPeek(inp, p) /\ inp[p] \notin S THEN take_while_not_in(inp, p + 1, S) ELSE p

skip_spaces(inp, p) == take_while_in(inp, p, {SP})

parse_usize(inp, p) ==
    LET e == take_while_in(inp, p, Digit)
        r == from_str_radix(SubSeq(inp, p, e - 1), UsizeMaxDigits)
    IN  [ok |-> r.ok, val |-> r.val, pos |-> e]

parse_method(inp, p) ==
    LET e   == take_while_in(inp, p, Upper)
        tok == SubSeq(inp, p, e - 1)
        r   == HttpMethod_from_str(tok)
    IN  [ok |-> r.ok, method |-> r.method, tok |-> tok, pos |-> skip_spaces(inp, e)]

parse_path(inp, p) ==
    LET e == take_while_not_in(inp, p, {SP})
    IN  [path |-> SubSeq(inp, p, e - 1), pos |-> skip_spaces(inp, e)]

NoVersion == [major |-> -1, minor |-> -1]

parse_version(inp, p) ==
    LET lit == match_str(inp, p, <<"H","T","T","P","/">>)
        maj == parse_usize(inp, lit.pos)
        dot == match_str(inp, maj.pos, <<".">>)
        min == parse_usize(inp, dot.pos)
    IN  IF ~lit.ok THEN [ok |-> FALSE, err |-> "FailedToParseVersion",
                         version |-> NoVersion, pos |-> lit.pos]
        ELSE IF ~maj.ok THEN [ok |-> FALSE, err |-> "ParseIntError",
                              version |-> NoVersion, pos |-> maj.pos]
        ELSE IF ~dot.ok THEN [ok |-> FALSE, err |-> "FailedToParseVersion",
                              version |-> NoVersion, pos |-> dot.pos]
        ELSE IF ~min.ok THEN [ok |-> FALSE, err |-> "ParseIntError",
                              version |-> NoVersion, pos |-> min.pos]
        ELSE [ok |-> TRUE, err |-> "none",
              version |-> [major |-> maj.val, minor |-> min.val], pos |-> min.pos]

parse_header(inp, p) ==
    LET ke  == take_while_not_in(inp, p, {":"})
        sep == match_str(inp, ke, <<":", SP>>)
        ve  == take_while_not_in(inp, sep.pos, {CR, LF})
        end == match_str(inp, ve, CRLF)
    IN  IF ~sep.ok THEN [ok |-> FALSE, key |-> <<>>, val |-> <<>>, pos |-> sep.pos]
        ELSE IF ~end.ok THEN [ok |-> FALSE, key |-> <<>>, val |-> <<>>, pos |-> end.pos]
        ELSE [ok |-> TRUE, key |-> SubSeq(inp, p, ke - 1),
              val |-> SubSeq(inp, sep.pos, ve - 1), pos |-> end.pos]

\* insert that keeps the value already stored for the key
insert_keep_first(h, k, v) ==
    [x \in (DOMAIN h) \cup {k} |-> IF x \in DOMAIN h THEN h[x] ELSE v]

\* HashMap::insert: a later value for the same key replaces the earlier one
insert(h, k, v) == [x \in (DOMAIN h) \cup {k} |-> IF x = k THEN v ELSE h[x]]

EmptyMap == [x \in {} |-> <<>>]

\* the loop test with the line-feed comparison left out
headers_continue_cr_only(inp, p) == HasPeek(inp, p) /\ inp[p] # CR

\* the loop test of parse_headers
headers_continue(inp, p) == HasPeek(inp, p) /\ inp[p] \notin {CR, LF}

\* parse_body that rebuilds the body from its lines, losing the last terminator
parse_body_lines(inp, p) ==
    IF HasPeek(inp, p)
    THEN LET m == match_str(inp, p, CRLF)
             b == Rest(inp, m.pos)
             n == Len(b)
         IN  IF ~m.ok THEN [ok |-> FALSE, body |-> <<>>, pos |-> m.pos]
             ELSE [ok |-> TRUE,
                   body |-> IF OccursAtEnd(b, CRLF) THEN SubSeq(b, 1, n - 2) ELSE b,
                   pos |-> Len(inp) + 1]
    ELSE [ok |-> TRUE, body |-> <<>>, pos |-> p]

parse_body(inp, p) ==
    IF HasPeek(inp, p)
    THEN LET m == match_str(inp, p, CRLF)
         IN  IF ~m.ok THEN [ok |-> FALSE, body |-> <<>>, pos |-> m.pos]
             ELSE [ok |-> TRUE, body |-> Rest(inp, m.pos), pos |-> Len(inp) + 1]
    ELSE [ok |-> TRUE, body |-> <<>>, pos |-> p]

----------------------------------------------------------------------------
(* models/mod.rs: HttpVersion (major: u32, minor: u32)                      *)

HttpVersion_new(major, minor) == [major |-> major, minor |-> minor]

\* Display that always writes the minor number
fmt_version_with_minor(v) ==
    <<"H","T","T","P","/">> \o ToDigits(v.major) \o <<".">> \o ToDigits(v.minor)

\* impl Display for HttpVersion: "HTTP/{major}", then ".{minor}" if minor > 0
fmt_version(v) ==
    <<"H","T","T","P","/">> \o ToDigits(v.major)
    \o (IF v.minor > 0 THEN <<".">> \o ToDigits(v.minor) ELSE <<>>)

\* str::parse::<u32>(): an optional '+', then one or more digits, within u32
parse_u32(t) ==
    LET d == IF t # <<>> /\ t[1] = "+" THEN Tail(t) ELSE t
    IN  IF d = <<>> \/ (\E i \in 1..Len(d) : d[i] \notin Digit)
        THEN [ok |-> FALSE, val |-> 0]
        ELSE from_str_radix(d, U32MaxDigits)

\* the piece str::split(".") yields first: the text before the first '.'
split_piece(t) == SubSeq(t, 1, take_while_not_in(t, 1, {"."}) - 1)

\* impl FromStr for HttpVersion
HttpVersion_from_str(s) ==
    IF ~starts_with(s, <<"H","T","T","P","/">>)
    THEN [ok |-> FALSE, err |-> "InvalidVersion", version |-> NoVersion]
    ELSE LET rest   == SubSeq(s, 6, Len(s))
             first  == split_piece(rest)
             more   == Len(first) < Len(rest)
             second == split_piece(SubSeq(rest, Len(first) + 2, Len(rest)))
             major  == parse_u32(first)
             minor  == IF more THEN parse_u32(second) ELSE [ok |-> TRUE, val |-> 0]
         IN  IF ~major.ok \/ ~minor.ok
             THEN [ok |-> FALSE, err |-> "ParseIntError", version |-> NoVersion]
             ELSE [ok |-> TRUE, err |-> "none",
                   version |-> [major |-> major.val, minor |-> minor.val]]

----------------------------------------------------------------------------
(* models/request.rs: HttpRequest::new, the parser that splits the text    *)
(* into lines.  Its HttpMethod::from_str and HttpVersion::from_str are the *)
(* ones above.                                                              *)

\* char::is_whitespace, for the characters the texts are made of
White == {SP, CR, LF, "\t"}

\* str::lines: split after every LF; the LF, and a CR right before it, are
\* taken off each line; text after the last LF is a line of its own
RECURSIVE str_lines(_)
str_lines(t) ==
    IF t = <<>> THEN <<>>
    ELSE LET e == take_while_not_in(t, 1, {LF})
             l == SubSeq(t, 1, e - 1)
         IN  IF e > Len(t) THEN <<t>>
             ELSE <<IF l # <<>> /\ l[Len(l)] = CR THEN SubSeq(l, 1, Len(l) - 1) ELSE l>>
                  \o str_lines(SubSeq(t, e + 1, Len(t)))

\* str::split_whitespace: the maximal runs of non-whitespace
RECURSIVE split_whitespace(_)
split_whitespace(t) ==
    LET a == take_while_in(t, 1, White)
        b == take_while_not_in(t, a, White)
    IN  IF a > Len(t) THEN <<>>
        ELSE <<SubSeq(t, a, b - 1)>> \o split_whitespace(SubSeq(t, b, Len(t)))

\* str::trim_start
trim_start(t) == SubSeq(t, take_while_in(t, 1, White), Len(t))

\* str::trim().is_empty()
trim_is_empty(t) == \A i \in 1..Len(t) : t[i] \in White

\* index of the first occurrence of lit in t at or after i, 0 when there is none
RECURSIVE find_from(_, _, _)
find_from(t, lit, i) ==
    IF i + Len(lit) - 1 > Len(t) THEN 0
    ELSE IF SubSeq(t, i, i + Len(lit) - 1) = lit THEN i
    ELSE find_from(t, lit, i + 1)

\* str::split(lit), all the pieces it yields
RECURSIVE str_split(_, _)
str_split(t, lit) ==
    LET i == find_from(t, lit, 1)
    IN  IF i = 0 THEN <<t>>
        ELSE <<SubSeq(t, 1, i - 1)>> \o str_split(SubSeq(t, i + Len(lit), Len(t)), lit)

\* collect::<Vec<_>>().join(sep)
RECURSIVE join(_, _)
join(ls, sep) ==
    IF ls = <<>> THEN <<>>
    ELSE IF Len(ls) = 1 THEN ls[1]
    ELSE ls[1] \o sep \o join(Tail(ls), sep)

\* parse_head: the first line, split at whitespace into method, route, version
lines_parse_head(ls) ==
    LET toks == split_whitespace(ls[1])
        m    == HttpMethod_from_str(toks[1])
        v    == HttpVersion_from_str(toks[3])
        fail(e) == [ok |-> FALSE, err |-> e, method |-> "none", route |-> <<>>,
                    version |-> NoVersion]
    IN  IF ls = <<>> THEN fail("UnexpectedEndOfInput")
        ELSE IF Len(toks) < 1 THEN fail("InvalidRequestHead")
        ELSE IF ~m.ok THEN fail("InvalidMethod")
        ELSE IF Len(toks) < 3 THEN fail("InvalidRequestHead")
        ELSE IF ~v.ok THEN fail(v.err)
        ELSE [ok |-> TRUE, err |-> "none", method |-> m.method, route |-> toks[2],
              version |-> v.version]

\* parse_headers, one line: key and value are the first two pieces around ": "
lines_parse_header(line) ==
    LET pieces == str_split(trim_start(line), <<":", SP>>)
    IN  IF Len(pieces) < 2 THEN [ok |-> FALSE, key |-> <<>>, val |-> <<>>]
        ELSE [ok |-> TRUE, key |-> pieces[1], val |-> pieces[2]]

----------------------------------------------------------------------------
(* models/response.rs: HttpStatusCode, HttpResponse and their Display       *)

StatusTable ==
    <<
      [variant |-> "Continue", code |-> 100,
       reason |-> <<"C","o","n","t","i","n","u","e">>],
      [variant |-> "SwitchingProtocols", code |-> 101,
       reason |-> <<"S","w","i","t","c","h","i","n","g"," ","P","r","o","t","o","c","o","l","s">>],
      [variant |-> "Processing", code |-> 102,
       reason |-> <<"P","r","o","c","e","s","s","i","n","g">>],
      [variant |-> "EarlyHints", code |-> 103,
       reason |-> <<"E","a","r","l","y"," ","H","i","n","t","s">>],
      [variant |-> "OK", code |-> 200,
       reason |-> <<"O","K">>],
      [variant |-> "Created", code |-> 201,
       reason |-> <<"C","r","e","a","t","e","d">>],
      [variant |-> "Accepted", code |-> 202,
       reason |-> <<"A","c","c","e","p","t","e","d">>],
      [variant |-> "NonAuthoritativeInformation", code |-> 203,
       reason |-> <<"N","o","n","-","A","u","t","h","o","r","i","t","a","t","i","v","e"," ","I","n","f","o","r","m","a","t","i","o","n">>],
      [variant |-> "NoContent", code |-> 204,
       reason |-> <<"N","o"," ","C","o","n","t","e","n","t">>],
      [variant |-> "ResetContent", code |-> 205,
       reason |-> <<"R","e","s","e","t"," ","C","o","n","t","e","n","t">>],
      [variant |-> "PartialContent", code |-> 206,
       reason |-> <<"P","a","r","t","i","a","l"," ","C","o","n","t","e","n","t">>],
      [variant |-> "MultiStatus", code |-> 207,
       reason |-> <<"M","u","l","t","i","-","S","t","a","t","u","s">>],
      [variant |-> "AlreadyReported", code |-> 208,
       reason |-> <<"A","l","r","e","a","d","y"," ","R","e","p","o","r","t","e","d">>],
      [variant |-> "ImUsed", code |-> 226,
       reason |-> <<"I","M"," ","U","s","e","d">>],
      [variant |-> "MultipleChoices", code |-> 300,
       reason |-> <<"M","u","l","t","i","p","l","e"," ","C","h","o","i","c","e","s">>],
      [variant |-> "MovedPermanently", code |-> 301,
       reason |-> <<"M","o","v","e","d"," ","P","e","r","m","a","n","e","n","t","l","y">>],
      [variant |-> "Found", code |-> 302,
       reason |-> <<"F","o","u","n","d">>],
      [variant |-> "SeeOther", code |-> 303,
       reason |-> <<"S","e","e"," ","O","t","h","e","r">>],
      [variant |-> "NotModified", code |-> 304,
       reason |-> <<"N","o","t"," ","M","o","d","i","f","i","e","d">>],
      [variant |-> "UseProxy", code |-> 305,
       reason |-> <<"U","s","e"," ","P","r","o","x","y">>],
      [variant |-> "Unused", code |-> 306,
       reason |-> <<"u","n","u","s","e","d">>],
      [variant |-> "TemporaryRedirect", code |-> 307,
       reason |-> <<"T","e","m","p","o","r","a","r","y"," ","R","e","d","i","r","e","c","t">>],
      [variant |-> "PermanentRedirect", code |-> 308,
       reason |-> <<"P","e","r","m","a","n","e","n","t"," ","R","e","d","i","r","e","c","t">>],
      [variant |-> "BadRequest", code |-> 400,
       reason |-> <<"B","a","d"," ","R","e","q","u","e","s","t">>],
      [variant |-> "Unauthorized", code |-> 401,
       reason |-> <<"U","n","a","u","t","h","o","r","i","z","e","d">>],
      [variant |-> "PaymentRequired", code |-> 402,
       reason |-> <<"P","a","y","m","e","n","t"," ","R","e","q","u","i","r","e","d">>],
      [variant |-> "Forbidden", code |-> 403,
       reason |-> <<"F","o","r","b","i","d","d","e","n">>],
      [variant |-> "NotFound", code |-> 404,
       reason |-> <<"N","o","t"," ","F","o","u","n","d">>],
      [variant |-> "MethodNotAllowed", code |-> 405,
       reason |-> <<"M","e","t","h","o","d"," ","N","o","t"," ","A","l","l","o","w","e","d">>],
      [variant |-> "NotAcceptable", code |-> 406,
       reason |-> <<"N","o","t"," ","A","c","c","e","p","t","a","b","l","e">>],
      [variant |-> "ProxyAuthenticationRequired", code |-> 407,
       reason |-> <<"P","r","o","x","y"," ","A","u","t","h","e","n","t","i","c","a","t","i","o","n"," ","R","e","q","u","i","r","e","d">>],
      [variant |-> "RequestTimeout", code |-> 408,
       reason |-> <<"R","e","q","u","e","s","t"," ","T","i","m","e","o","u","t">>],
      [variant |-> "Conflict", code |-> 409,
       reason |-> <<"C","o","n","f","l","i","c","t">>],
      [variant |-> "Gone", code |-> 410,
       reason |-> <<"G","o","n","e">>],
      [variant |-> "LengthRequired", code |-> 411,
       reason |-> <<"L","e","n","g","t","h"," ","R","e","q","u","i","r","e","d">>],
      [variant |-> "PreconditionFailed", code |-> 412,
       reason |-> <<"P","r","e","c","o","n","d","i","t","i","o","n"," ","F","a","i","l","e","d">>],
      [variant |-> "ContentTooLarge", code |-> 413,
       reason |-> <<"C","o","n","t","e","n","t"," ","T","o","o"," ","L","a","r","g","e">>],
      [variant |-> "UriTooLong", code |-> 414,
       reason |-> <<"U","R","I"," ","T","o","o"," ","L","o","n","g">>],
      [variant |-> "UnsupportedMediaType", code |-> 415,
       reason |-> <<"U","n","s","u","p","p","o","r","t","e","d"," ","M","e","d","i","a"," ","T","y","p","e">>],
      [variant |-> "RangeNotSatisfiable", code |-> 416,
       reason |-> <<"R","a","n","g","e"," ","N","o","t"," ","S","a","t","i","s","f","i","a","b","l","e">>],
      [variant |-> "ExpectationFailed", code |-> 417,
       reason |-> <<"E","x","p","e","c","t","a","t","i","o","n"," ","F","a","i","l","e","d">>],
      [variant |-> "ImATeapot", code |-> 418,
       reason |-> <<"I","'","m"," ","a"," ","t","e","a","p","o","t">>],
      [variant |-> "MisdirectedRequest", code |-> 421,
       reason |-> <<"M","i","s","d","i","r","e","c","t","e","d"," ","R","e","q","u","e","s","t">>],
      [variant |-> "UnprocessableContent", code |-> 422,
       reason |-> <<"U","n","p","r","o","c","e","s","s","a","b","l","e"," ","C","o","n","t","e","n","t">>],
      [variant |-> "Locked", code |-> 423,
       reason |-> <<"L","o","c","k","e","d">>],
      [variant |-> "FailedDependency", code |-> 424,
       reason |-> <<"F","a","i","l","e","d"," ","D","e","p","e","n","d","e","n","c","y">>],
      [variant |-> "TooEarly", code |-> 425,
       reason |-> <<"T","o","o"," ","E","a","r","l","y">>],
      [variant |-> "UpgradeRequired", code |-> 426,
       reason |-> <<"U","p","g","r","a","d","e"," ","R","e","q","u","i","r","e","d">>],
      [variant |-> "PreconditionRequired", code |-> 428,
       reason |-> <<"P","r","e","c","o","n","d","i","t","i","o","n"," ","R","e","q","u","i","r","e","d">>],
      [variant |-> "TooManyRequests", code |-> 429,
       reason |-> <<"T","o","o"," ","M","a","n","y"," ","R","e","q","u","e","s","t","s">>],
      [variant |-> "RequestHeaderFieldsTooLarge", code |-> 431,
       reason |-> <<"R","e","q","u","e","s","t"," ","H","e","a","d","e","r"," ","F","i","e","l","d","s"," ","T","o","o"," ","L","a","r","g","e">>],
      [variant |-> "UnavailableForLegalReasons", code |-> 451,
       reason |-> <<"U","n","a","v","a","i","l","a","b","l","e"," ","F","o","r"," ","L","e","g","a","l"," ","R","e","a","s","o","n","s">>],
      [variant |-> "InternalServerError", code |-> 500,
       reason |-> <<"I","n","t","e","r","n","a","l"," ","S","e","r","v","e","r"," ","E","r","r","o","r">>],
      [variant |-> "NotImplemented", code |-> 501,
       reason |-> <<"N","o","t"," ","I","m","p","l","e","m","e","n","t","e","d">>],
      [variant |-> "BadGateway", code |-> 502,
       reason |-> <<"B","a","d"," ","G","a","t","e","w","a","y">>],
      [variant |-> "ServiceUnavailable", code |-> 503,
       reason |-> <<"S","e","r","v","i","c","e"," ","U","n","a","v","a","i","l","a","b","l","e">>],
      [variant |-> "GatewayTimeout", code |-> 504,
       reason |-> <<"G","a","t","e","w","a","y"," ","T","i","m","e","o","u","t">>],
      [variant |-> "HTTPVersionNotSupported", code |-> 505,
       reason |-> <<"H","T","T","P"," ","V","e","r","s","i","o","n"," ","N","o","t"," ","S","u","p","p","o","r","t","e","d">>],
      [variant |-> "VariantAlsoNegotiates", code |-> 506,
       reason |-> <<"V","a","r","i","a","n","t"," ","A","l","s","o"," ","N","e","g","o","t","i","a","t","e","s">>],
      [variant |-> "InsufficientStorage", code |-> 507,
       reason |-> <<"I","n","s","u","f","f","i","c","i","e","n","t"," ","S","t","o","r","a","g","e">>],
      [variant |-> "LoopDetected", code |-> 508,
       reason |-> <<"L","o","o","p"," ","D","e","t","e","c","t","e","d">>],
      [variant |-> "NotExtended", code |-> 510,
       reason |-> <<"N","o","t"," ","E","x","t","e","n","d","e","d">>],
      [variant |-> "NetworkAuthenticationRequired", code |-> 511,
       reason |-> <<"N","e","t","w","o","r","k"," ","A","u","t","h","e","n","t","i","c","a","t","i","o","n"," ","R","e","q","u","i","r","e","d">>]
    >>

HttpStatusCode == {StatusTable[i].variant : i \in 1..Len(StatusTable)}

StatusRow(s) == CHOOSE i \in 1..Len(StatusTable) : StatusTable[i].variant = s

\* *self as usize
status_code(s) == StatusTable[StatusRow(s)].code

get_readable_name(s) == StatusTable[StatusRow(s)].reason

\* impl Display for HttpStatusCode: "{code} {readable name}"
fmt_status(s) == ToDigits(status_code(s)) \o <<SP>> \o get_readable_name(s)

\* HttpResponse::im_a_teapot
im_a_teapot(b) ==
    [status |-> "ImATeapot", version |-> HttpVersion_new(1, 1),
     headers |-> EmptyMap, body |-> b]

\* for (key, val) in self.headers.iter() { write!(f, "{}: {}\r\n", key, val) }
RECURSIVE fmt_headers(_, _)
fmt_headers(h, ord) ==
    IF ord = <<>> THEN <<>>
    ELSE ord[1] \o <<":", SP>> \o h[ord[1]] \o CRLF \o fmt_headers(h, Tail(ord))

\* impl Display for HttpResponse
fmt_response(r, ord) ==
    fmt_version(r.version) \o <<SP>> \o fmt_status(r.status) \o CRLF
    \o fmt_headers(r.headers, ord)
    \o CRLF \o r.body

\* the orders HashMap::iter may yield the keys in: every key exactly once
Orders(h) ==
    {o \in [1..Cardinality(DOMAIN h) -> DOMAIN h] :
        \A i, j \in 1..Cardinality(DOMAIN h) : o[i] = o[j] => i = j}

----------------------------------------------------------------------------
(* The texts the parser is run on.  A text is put together from a method   *)
(* token, spaces, a path token, spaces, a version token, the head          *)
(* terminator, header lines (text + terminator), the blank line and the    *)
(* remainder; every piece is drawn from a small set that holds well-formed *)
(* and malformed choices.                                                   *)

MaxVer == 1
MaxLines == 2

\* the wire name of each method of the closed set
MethodName ==
    [GET |-> <<"G","E","T">>, HEAD |-> <<"H","E","A","D">>,
     POST |-> <<"P","O","S","T">>, PUT |-> <<"P","U","T">>,
     DELETE |-> <<"D","E","L","E","T","E">>,
     CONNECT |-> <<"C","O","N","N","E","C","T">>,
     OPTIONS |-> <<"O","P","T","I","O","N","S">>,
     TRACE |-> <<"T","R","A","C","E">>, PATCH |-> <<"P","A","T","C","H">>]

MethodToks == {MethodName[m] : m \in HttpMethod}

BadMethodToks == {<<>>, <<"G","E">>, <<"G","e","t">>, <<"G","E","T","S">>}

Seps == {<<>>, <<SP>>, <<SP, SP>>}

PathToks == {<<"/">>, <<"/","f","o","o">>}

HttpLit == <<"H","T","T","P","/">>

\* "HTTP/<major>.<minor>", both numbers written in decimal
VersionText(major, minor) ==
    HttpLit \o ToDigits(major) \o <<".">> \o ToDigits(minor)

VerNums == (0..MaxVer) \cup {12}

VersionToks == {VersionText(a, b) : a \in VerNums, b \in VerNums}

BadVersionToks ==
    { HttpLit \o <<"1">>,                          \* HTTP/1
      HttpLit \o <<"2">>,                          \* HTTP/2
      <<"H","T","T","P","1",".","1">>,             \* HTTP1.1
      HttpLit \o <<"1",".">>,                      \* HTTP/1.
      HttpLit \o <<".","1">>,                      \* HTTP/.1
      HttpLit \o <<"1",".","x">>,                  \* HTTP/1.x
      <<"h","t","t","p","/","1",".","1">>,         \* http/1.1
      HttpLit \o <<"0","1",".","0","0">>,          \* HTTP/01.00
      HttpLit \o <<"9","9","9","9","9","9","9","9","9","9",
                   "9","9","9","9","9","9","9","9","9","9",".","0">> }

\* tokens only HttpVersion::from_str is run on
OddVersionToks ==
    { HttpLit \o <<"+","1",".","+","2">>,          \* HTTP/+1.+2
      HttpLit \o <<"1",".","1",".","x">>,          \* HTTP/1.1.x
      HttpLit \o <<"-","1">>,                      \* HTTP/-1
      HttpLit \o <<"4","2","9","4","9","6","7","2","9","6">>,   \* u32::MAX + 1
      HttpLit }                                     \* HTTP/

HeadTerms == {CRLF, <<>>, <<LF>>, <<CR>>, <<SP, CR, LF>>, <<"x", CR, LF>>}

T_HostX == <<"H","o","s","t",":"," ","x">>
T_HostY == <<"H","o","s","t",":"," ","y">>
T_Empty == <<":"," ">>
T_Nested == <<"K",":"," ","a",":"," ","b">>
T_Bad == <<"B","a","d","H","e","a","d","e","r">>
T_NoSpace == <<"A",":","b">>

WfLineTexts == {T_HostX, T_HostY, T_Empty, T_Nested}

BadLineTexts == {T_Bad, T_NoSpace}

WfLines == {[text |-> t, term |-> CRLF] : t \in WfLineTexts}

Lines == {[text |-> t, term |-> CRLF] : t \in WfLineTexts \cup BadLineTexts}
         \cup {[text |-> T_HostX, term |-> <<LF>>]}

SeqsUpTo(S, n) == UNION {[1..k -> S] : k \in 0..n}

Bodies == {<<>>, <<"h","e","l","l","o">>, <<"a",CR,LF,"b",CR,LF>>,
           <<"k",":"," ","v",CR,LF>>}

Blanks == {CRLF, <<>>, <<CR>>, <<LF>>}

Piece(mt, s1, pt, s2, vt, ht, ls, bl, rs) ==
    [mtok |-> mt, sep1 |-> s1, ptok |-> pt, sep2 |-> s2, vtok |-> vt,
     hterm |-> ht, lines |-> ls, blank |-> bl, rest |-> rs]

\* every piece well-formed
WfFamily ==
    {Piece(mt, <<SP>>, pt, <<SP>>, vt, CRLF, ls, CRLF, rs) :
        mt \in MethodToks, pt \in PathToks, vt \in VersionToks,
        ls \in SeqsUpTo(WfLines, MaxLines), rs \in Bodies}

\* the request line varies, nothing follows it but the blank line
HeadFamily ==
    {Piece(mt, s1, pt, s2, vt, ht, <<>>, CRLF, <<>>) :
        mt \in {MethodName["GET"], MethodName["POST"]} \cup BadMethodToks,
        s1 \in Seps, pt \in {<<"/">>, <<>>}, s2 \in Seps,
        vt \in {VersionText(1, 1)} \cup BadVersionToks, ht \in HeadTerms}

\* the header section and what follows it vary
HeaderFamily ==
    {Piece(MethodName["GET"], <<SP>>, <<"/">>, <<SP>>, VersionText(1, 1), CRLF,
           ls, bl, rs) :
        ls \in SeqsUpTo(Lines, MaxLines), bl \in Blanks, rs \in Bodies}

\* the text ends inside the last header line
CutFamily ==
    {Piece(MethodName["GET"], <<SP>>, <<"/">>, <<SP>>, VersionText(1, 1), CRLF,
           ls \o <<[text |-> t, term |-> <<>>]>>, <<>>, <<>>) :
        ls \in SeqsUpTo(Lines, MaxLines - 1), t \in {T_HostX, T_Bad}}

Messages == WfFamily \cup HeadFamily \cup HeaderFamily \cup CutFamily

RECURSIVE RenderLines(_)
RenderLines(ls) ==
    IF ls = <<>> THEN <<>>
    ELSE ls[1].text \o ls[1].term \o RenderLines(Tail(ls))

Render(m) ==
    m.mtok \o m.sep1 \o m.ptok \o m.sep2 \o m.vtok \o m.hterm
    \o RenderLines(m.lines) \o m.blank \o m.rest

----------------------------------------------------------------------------
(* The responses that are serialized.                                       *)

HeaderKeys == {<<"H","o","s","t">>, <<"K">>}

HeaderValues == {<<"x">>, <<"a",":"," ","b">>}

HeaderMaps == UNION {[ks -> HeaderValues] : ks \in SUBSET HeaderKeys}

Responses ==
    {[status |-> s, version |-> HttpVersion_new(a, b), headers |-> h, body |-> b2] :
        s \in HttpStatusCode, a \in VerNums, b \in VerNums, h \in HeaderMaps,
        b2 \in {<<>>, <<"h","e","l","l","o">>, <<"a",CR,LF,"b",CR,LF>>}}
    \cup {im_a_teapot(b2) : b2 \in Bodies}

NoResponse ==
    [status |-> "none", version |-> NoVersion, headers |-> EmptyMap, body |-> <<>>]

NoParse == [ok |-> FALSE, err |-> "none", version |-> NoVersion, pos |-> 0]

NoFromStr == [ok |-> FALSE, err |-> "none", version |-> NoVersion]

\* the locals of the rules before any rule has run
StepIdle ==
    /\ test_i = 1
    /\ digits = <<>>
    /\ ver_major = 0
    /\ header_key = <<>>
    /\ header_value = <<>>
    /\ taken = <<>>

ParserIdle ==
    /\ parts = Piece(<<>>, <<>>, <<>>, <<>>, <<>>, <<>>, <<>>, <<>>, <<>>)
    /\ input = <<>>
    /\ pos = 1
    /\ pc = "idle"
    /\ method_str = <<>>
    /\ method = "none"
    /\ path = <<>>
    /\ http_version = NoVersion
    /\ headers = EmptyMap
    /\ body = <<>>
    /\ result = "none"
    /\ verEnd = 0
    /\ hdrEnd = 0

ResponseIdle ==
    /\ lines = <<>>
    /\ response = NoResponse
    /\ order = <<>>
    /\ text = <<>>
    /\ vtoken = <<>>
    /\ parsed = NoFromStr
    /\ reparsed = NoParse
    /\ rpc = "idle"

----------------------------------------------------------------------------
(* parse_request as a state machine: one step per rule, in the order of    *)
(* the code; an Err(..) from a rule ends the call (the ? operator).         *)

Init ==
    /\ parts \in Messages
    /\ input = Render(parts)
    /\ pos = 1
    /\ pc = "method"
    /\ method_str = <<>>
    /\ method = "none"
    /\ path = <<>>
    /\ http_version = NoVersion
    /\ headers = EmptyMap
    /\ body = <<>>
    /\ result = "none"
    /\ verEnd = 0
    /\ hdrEnd = 0
    /\ ResponseIdle
    /\ StepIdle

\* let method = self.parse_method()?;
ParseMethod ==
    /\ pc = "method"
    /\ LET r == parse_method(input, pos)
       IN  /\ pos' = r.pos
           /\ method_str' = r.tok
           /\ method' = r.method
           /\ pc' = IF r.ok THEN "path" ELSE "done"
           /\ result' = IF r.ok THEN "none" ELSE "InvalidMethod"
    /\ UNCHANGED <<parts, input, path, http_version, headers, body, verEnd, hdrEnd,
                   responseVars, lines, stepVars>>

\* let path = self.parse_path()?;
ParsePath ==
    /\ pc = "path"
    /\ LET r == parse_path(input, pos)
       IN  /\ pos' = r.pos
           /\ path' = r.path
           /\ pc' = "version"
    /\ UNCHANGED <<parts, input, method_str, method, http_version, headers, body,
                   result, verEnd, hdrEnd,
                   responseVars, lines, stepVars>>

\* let http_version = self.parse_version()?;
ParseVersion ==
    /\ pc = "version"
    /\ LET r == parse_version(input, pos)
       IN  /\ pos' = r.pos
           /\ http_version' = r.version
           /\ verEnd' = IF r.ok THEN r.pos ELSE 0
           /\ pc' = IF r.ok THEN "head" ELSE "done"
           /\ result' = IF r.ok THEN "none" ELSE r.err
    /\ UNCHANGED <<parts, input, method_str, method, path, headers, body, hdrEnd,
                   responseVars, lines, stepVars>>

\* the head terminator skipped when present, its absence let through
MatchHead_lenient ==
    /\ pc = "head"
    /\ pos' = match_str(input, pos, CRLF).pos
    /\ pc' = "headers"
    /\ UNCHANGED <<parts, input, method_str, method, path, http_version, headers,
                   body, result, verEnd, hdrEnd,
                   responseVars, lines, stepVars>>

\* if !self.match_str("\r\n") { return Err(Error::FailedToParseHead); }
MatchHead ==
    /\ pc = "head"
    /\ LET r == match_str(input, pos, CRLF)
       IN  /\ pos' = r.pos
           /\ pc' = IF r.ok THEN "headers" ELSE "done"
           /\ result' = IF r.ok THEN "none" ELSE "FailedToParseHead"
    /\ UNCHANGED <<parts, input, method_str, method, path, http_version, headers,
                   body, verEnd, hdrEnd,
                   responseVars, lines, stepVars>>

\* parse_headers, one turn of its loop: parse_header()? and headers.insert
ParseHeader ==
    /\ pc = "headers"
    /\ headers_continue(input, pos)
    /\ LET r == parse_header(input, pos)
       IN  /\ pos' = r.pos
           /\ headers' = IF r.ok THEN insert(headers, r.key, r.val) ELSE EmptyMap
           /\ pc' = IF r.ok THEN "headers" ELSE "done"
           /\ result' = IF r.ok THEN "none" ELSE "FailedToParseHeaders"
    /\ UNCHANGED <<parts, input, method_str, method, path, http_version, body,
                   verEnd, hdrEnd,
                   responseVars, lines, stepVars>>

\* parse_headers, the loop ends: Ok(headers)
HeadersDone ==
    /\ pc = "headers"
    /\ ~headers_continue(input, pos)
    /\ pc' = "body"
    /\ hdrEnd' = pos
    /\ UNCHANGED <<parts, input, pos, method_str, method, path, http_version,
                   headers, body, result, verEnd,
                   responseVars, lines, stepVars>>

\* let body = self.parse_body()?; Ok(HttpRequest { .. })
ParseBody ==
    /\ pc = "body"
    /\ LET r == parse_body(input, pos)
       IN  /\ pos' = r.pos
           /\ body' = r.body
           /\ result' = IF r.ok THEN "Ok" ELSE "FailedToParseBody"
    /\ pc' = "done"
    /\ UNCHANGED <<parts, input, method_str, method, path, http_version, headers,
                   verEnd, hdrEnd,
                   responseVars, lines, stepVars>>

Next ==
    \/ ParseMethod
    \/ ParsePath
    \/ ParseVersion
    \/ MatchHead
    \/ ParseHeader
    \/ HeadersDone
    \/ ParseBody

Spec == Init /\ [][Next]_vars

----------------------------------------------------------------------------
(* HttpRequest::new as a state machine, run on the same texts.             *)

InitLines ==
    /\ parts \in Messages
    /\ input = Render(parts)
    /\ lines = str_lines(input)
    /\ pos = 1
    /\ pc = "head"
    /\ method_str = <<>>
    /\ method = "none"
    /\ path = <<>>
    /\ http_version = NoVersion
    /\ headers = EmptyMap
    /\ body = <<>>
    /\ result = "none"
    /\ verEnd = 0
    /\ hdrEnd = 0
    /\ response = NoResponse
    /\ order = <<>>
    /\ text = <<>>
    /\ vtoken = <<>>
    /\ parsed = NoFromStr
    /\ reparsed = NoParse
    /\ rpc = "idle"
    /\ StepIdle

\* let (method, route, version) = parse_head(&mut lines)?;
LinesParseHead ==
    /\ pc = "head"
    /\ LET r == lines_parse_head(lines)
       IN  /\ method' = r.method
           /\ path' = r.route
           /\ http_version' = r.version
           /\ pc' = IF r.ok THEN "headers" ELSE "done"
           /\ result' = IF r.ok THEN "none" ELSE r.err
    /\ lines' = IF lines = <<>> THEN <<>> ELSE Tail(lines)
    /\ UNCHANGED <<parts, input, pos, method_str, headers, body, verEnd, hdrEnd,
                   responseVars, stepVars>>

\* parse_headers, one turn of its loop on a line that is not blank
LinesParseHeader ==
    /\ pc = "headers"
    /\ lines # <<>> /\ ~trim_is_empty(lines[1])
    /\ LET r == lines_parse_header(lines[1])
       IN  /\ headers' = IF r.ok THEN insert(headers, r.key, r.val) ELSE EmptyMap
           /\ pc' = IF r.ok THEN "headers" ELSE "done"
           /\ result' = IF r.ok THEN "none" ELSE "InvalidHeader"
    /\ lines' = Tail(lines)
    /\ UNCHANGED <<parts, input, pos, method_str, method, path, http_version, body,
                   verEnd, hdrEnd, responseVars, stepVars>>

\* parse_headers ends (no line left, or a blank line, which is read and
\* dropped); the lines left are joined with "\r\n" into the body; Ok(Self)
LinesBody ==
    /\ pc = "headers"
    /\ IF lines = <<>> THEN TRUE ELSE trim_is_empty(lines[1])
    /\ body' = IF lines = <<>> THEN <<>> ELSE join(Tail(lines), CRLF)
    /\ lines' = <<>>
    /\ result' = "Ok"
    /\ pc' = "done"
    /\ UNCHANGED <<parts, input, pos, method_str, method, path, http_version,
                   headers, verEnd, hdrEnd, responseVars, stepVars>>

NextLines ==
    \/ LinesParseHead
    \/ LinesParseHeader
    \/ LinesBody

SpecLines == InitLines /\ [][NextLines]_vars

----------------------------------------------------------------------------
(* The response side: a response is written with Display, and the version  *)
(* of its status line is read back, by HttpVersion::from_str and by        *)
(* RequestParser::parse_version; a bare version token is read by from_str. *)

InitResponse ==
    /\ ParserIdle
    /\ StepIdle
    /\ lines = <<>>
    /\ order = <<>>
    /\ text = <<>>
    /\ parsed = NoFromStr
    /\ reparsed = NoParse
    /\ \/ response \in Responses /\ vtoken = <<>> /\ rpc = "built"
       \/ response = NoResponse /\ vtoken \in VersionToks \cup BadVersionToks \cup OddVersionToks
          /\ rpc = "token"

\* response.to_string()
Fmt ==
    /\ rpc = "built"
    /\ \E o \in Orders(response.headers) :
          /\ order' = o
          /\ text' = fmt_response(response, o)
    /\ rpc' = "written"
    /\ UNCHANGED <<response, vtoken, parsed, reparsed, parserVars, lines, stepVars>>

\* the first token of the status line handed to HttpVersion::from_str
StatusLineFromStr ==
    /\ rpc = "written"
    /\ vtoken' = SubSeq(text, 1, take_while_not_in(text, 1, {SP}) - 1)
    /\ parsed' = HttpVersion_from_str(vtoken')
    /\ rpc' = "fromstr"
    /\ UNCHANGED <<response, order, text, reparsed, parserVars, lines, stepVars>>

\* RequestParser::from_str(text).parse_version()
StatusLineParseVersion ==
    /\ rpc = "fromstr"
    /\ reparsed' = parse_version(text, 1)
    /\ rpc' = "done"
    /\ UNCHANGED <<response, order, text, vtoken, parsed, parserVars, lines, stepVars>>

\* token.parse::<HttpVersion>()
TokenFromStr ==
    /\ rpc = "token"
    /\ parsed' = HttpVersion_from_str(vtoken)
    /\ rpc' = "done"
    /\ UNCHANGED <<response, order, text, vtoken, reparsed, parserVars, lines, stepVars>>

NextResponse ==
    \/ Fmt
    \/ StatusLineFromStr
    \/ StatusLineParseVersion
    \/ TokenFromStr

SpecResponse == InitResponse /\ [][NextResponse]_vars

----------------------------------------------------------------------------
(* Vocabulary of the properties: what the pieces of a text say, read off   *)
(* the pieces themselves and not off the parser.                            *)

Done == pc = "done"

HasChar(t, S) == \E i \in 1..Len(t) : t[i] \in S

\* lit occurs in t at index i
OccursAt(t, i, lit) ==
    /\ i >= 1
    /\ i + Len(lit) - 1 <= Len(t)
    /\ SubSeq(t, i, i + Len(lit) - 1) = lit

Contains(t, lit) == \E i \in 1..Len(t) : OccursAt(t, i, lit)

FirstColon(t) == CHOOSE i \in 1..Len(t) : t[i] = ":" /\ \A j \in 1..(i - 1) : t[j] # ":"

\* <key>": "<value>, key without ':', CR, LF and value without CR, LF
WfLineText(t) ==
    /\ HasChar(t, {":"})
    /\ OccursAt(t, FirstColon(t), <<":", SP>>)
    /\ ~HasChar(t, {CR, LF})

WfLine(l) == WfLineText(l.text) /\ l.term = CRLF

KeyOf(t) == SubSeq(t, 1, FirstColon(t) - 1)

ValueOf(t) == SubSeq(t, FirstColon(t) + 2, Len(t))

\* the map a list of well-formed lines denotes: the last line of a key wins
MapOf(ls) ==
    [k \in {KeyOf(ls[i].text) : i \in 1..Len(ls)} |->
        LET last == CHOOSE i \in 1..Len(ls) :
                        /\ KeyOf(ls[i].text) = k
                        /\ \A j \in (i + 1)..Len(ls) : KeyOf(ls[j].text) # k
        IN  ValueOf(ls[last].text)]

MethodOf(tok) == CHOOSE m \in HttpMethod : MethodName[m] = tok

IsDottedVersion(tok) == \E a \in VerNums, b \in VerNums : tok = VersionText(a, b)

VersionOf(tok) ==
    CHOOSE v \in [major : VerNums, minor : VerNums] : tok = VersionText(v.major, v.minor)

\* <method> SP <path> SP HTTP/<major>.<minor>
WfRequestLine(m) ==
    /\ m.mtok \in MethodToks
    /\ m.sep1 = <<SP>>
    /\ m.ptok # <<>> /\ ~HasChar(m.ptok, {SP, CR, LF})
    /\ m.sep2 = <<SP>>
    /\ IsDottedVersion(m.vtok)

\* the message of the grammar: request line CRLF, header lines, CRLF, body
WellFormed(m) ==
    /\ WfRequestLine(m)
    /\ m.hterm = CRLF
    /\ \A i \in 1..Len(m.lines) : WfLine(m.lines[i])
    /\ m.blank = CRLF

Fixture ==
    <<"G","E","T"," ","/","f","o","o"," ","H","T","T","P","/","1",".","1",CR,LF,
      "H","o","s","t",":"," ","x",CR,LF,CR,LF>>

----------------------------------------------------------------------------
(* C1: every well-formed message <method> SP <path> SP HTTP/<major>.<minor> *)
(* CRLF, header lines <key>": "<value> CRLF, CRLF, <body> parses, and the   *)
(* request holds exactly that method, path, version, header map and body.   *)
C1_WellFormedParses ==
    (Done /\ WellFormed(parts)) =>
        /\ result = "Ok"
        /\ method = MethodOf(parts.mtok)
        /\ path = parts.ptok
        /\ http_version = VersionOf(parts.vtok)
        /\ headers = MapOf(parts.lines)
        /\ body = parts.rest

\* the fixture of the specification has been parsed
C1_Witness ==
    /\ Done /\ WellFormed(parts)
    /\ input = Fixture
    /\ result = "Ok" /\ method = "GET" /\ path = <<"/","f","o","o">>
    /\ http_version = [major |-> 1, minor |-> 1]
    /\ DOMAIN headers = {<<"H","o","s","t">>}
    /\ headers[<<"H","o","s","t">>] = <<"x">>
    /\ body = <<>>

----------------------------------------------------------------------------
(* C6: the request line ends in CRLF right after the version: a request is *)
(* only built when CR LF directly follow the version's last digit, and when *)
(* the version was read and anything else (or the end of the text) follows  *)
(* it, the call fails with FailedToParseHead.                               *)
VersionEndOf(m) == Len(m.mtok \o m.sep1 \o m.ptok \o m.sep2 \o m.vtok) + 1

C6_HeadTerminated ==
    /\ verEnd > 0 =>
          /\ verEnd = VersionEndOf(parts)
          /\ input[verEnd - 1] \in Digit
    /\ result = "Ok" => (verEnd > 0 /\ OccursAt(input, verEnd, CRLF))
    /\ (Done /\ verEnd > 0 /\ ~OccursAt(input, verEnd, CRLF)) =>
          result = "FailedToParseHead"

\* a version was read, a space follows it, and the call failed on the head
C6_Witness ==
    /\ Done /\ verEnd > 0 /\ WfRequestLine(parts)
    /\ OccursAt(input, verEnd, <<SP, CR, LF>>)
    /\ result = "FailedToParseHead"

----------------------------------------------------------------------------
(* C7: the body of a parsed request is the text after the blank-line CRLF, *)
(* character for character, and is empty when the text ends after the      *)
(* headers.                                                                 *)
C7_BodyVerbatim ==
    /\ result = "Ok" =>
          \/ hdrEnd = Len(input) + 1 /\ body = <<>>
          \/ /\ OccursAt(input, hdrEnd, CRLF)
             /\ body = Rest(input, hdrEnd + 2)
             /\ input = SubSeq(input, 1, hdrEnd - 1) \o CRLF \o body
    /\ (Done /\ WellFormed(parts)) => (result = "Ok" /\ body = parts.rest)

\* "GET / HTTP/1.1\r\n\r\nhello" has been parsed to body "hello"
C7_Witness ==
    /\ result = "Ok"
    /\ input = <<"G","E","T"," ","/"," ","H","T","T","P","/","1",".","1",CR,LF,
                 CR,LF,"h","e","l","l","o">>
    /\ body = <<"h","e","l","l","o">>

----------------------------------------------------------------------------
(* C2: version parsing takes "HTTP/" <major> with the "."<minor> part      *)
(* optional, the minor defaulting to 0 ("HTTP/1" is (1,0)), and a token    *)
(* without the "HTTP/" prefix is a version error.                           *)
AfterVersion == pc \notin {"method", "path", "version"}

CleanBeforeVersion(m) ==
    /\ m.mtok \in MethodToks
    /\ m.sep1 = <<SP>>
    /\ m.ptok # <<>>
    /\ m.sep2 = <<SP>>

C2_MinorOptional ==
    (AfterVersion /\ CleanBeforeVersion(parts)) =>
        /\ IsDottedVersion(parts.vtok) => http_version = VersionOf(parts.vtok)
        /\ \A a \in 0..(MaxVer + 1) :
              parts.vtok = HttpLit \o ToDigits(a) =>
                  http_version = [major |-> a, minor |-> 0]
        /\ ~OccursAt(parts.vtok, 1, HttpLit) => result = "FailedToParseVersion"

----------------------------------------------------------------------------
(* C3: no key of the header map of a parsed request contains CR LF.         *)
C3_NoTerminatorInKey ==
    result = "Ok" => \A k \in DOMAIN headers : ~Contains(k, CRLF)

----------------------------------------------------------------------------
(* C4: a text with a valid request line whose header section holds a line  *)
(* without the ": " separator, or without its CRLF terminator, fails with  *)
(* FailedToParseHeaders, whatever follows that line.                        *)
TailOf(m) == m.blank \o m.rest

LacksSepOrTerm(l) == ~Contains(l.text, <<":", SP>>) \/ l.term # CRLF

C4_BadLineFails ==
    ( /\ Done
      /\ WfRequestLine(parts) /\ parts.hterm = CRLF
      /\ parts.blank = CRLF \/ TailOf(parts) = <<>>
      /\ \E i \in 1..Len(parts.lines) : LacksSepOrTerm(parts.lines[i]) )
    => result = "FailedToParseHeaders"

----------------------------------------------------------------------------
(* C5: the method is the maximal run of uppercase letters at the start of  *)
(* the text and a space must follow it: a text whose method token is       *)
(* directly followed by another character is rejected, and a token outside *)
(* the closed set (the empty one too) gives InvalidMethod, never a method.  *)
UpperRunEnd(t) ==
    CHOOSE n \in 0..Len(t) :
        /\ \A i \in 1..n : t[i] \in Upper
        /\ n < Len(t) => t[n + 1] \notin Upper

UpperRun(t) == SubSeq(t, 1, UpperRunEnd(t))

C5_MethodThenSpace ==
    Done =>
        /\ ( /\ UpperRun(input) \in MethodToks
             /\ UpperRunEnd(input) < Len(input)
             /\ input[UpperRunEnd(input) + 1] # SP ) => result # "Ok"
        /\ UpperRun(input) \notin MethodToks =>
              (result = "InvalidMethod" /\ method = "none")

----------------------------------------------------------------------------
(* C8: with a valid request line and valid header lines, a non-empty       *)
(* remainder that follows the last header line without the blank-line CRLF *)
(* in front of it fails with FailedToParseBody.                             *)
StartsWithWfLine(t) ==
    \E n \in 1..Len(t) : WfLineText(SubSeq(t, 1, n)) /\ OccursAt(t, n + 1, CRLF)

RemainderWithoutBlank(m) ==
    /\ WfRequestLine(m) /\ m.hterm = CRLF
    /\ \A i \in 1..Len(m.lines) : WfLine(m.lines[i])
    /\ TailOf(m) # <<>>
    /\ ~OccursAt(TailOf(m), 1, CRLF)
    /\ ~StartsWithWfLine(TailOf(m))

C8_RemainderIsBodyError ==
    (Done /\ RemainderWithoutBlank(parts)) => result = "FailedToParseBody"

\* C8 as amended: the remainder begins with CR or LF (and not with CR LF);
\* a remainder that begins with any other character is read as a header line
C8_CrOrLfRemainderIsBodyError ==
    (Done /\ RemainderWithoutBlank(parts) /\ TailOf(parts)[1] \in {CR, LF})
    => result = "FailedToParseBody"

\* a header line, then a lone CR and more text: the call failed on the body
C8_Witness ==
    /\ Done /\ RemainderWithoutBlank(parts)
    /\ Len(parts.lines) >= 1
    /\ TailOf(parts)[1] = CR /\ Len(TailOf(parts)) > 1
    /\ result = "FailedToParseBody"

----------------------------------------------------------------------------
(* C9: the text of a response is the version, a space, the numeric status  *)
(* code, a space, the reason phrase, CRLF; then one line <key>": "<value>  *)
(* CRLF per header of the map; then one CRLF; then the body and nothing    *)
(* after it.  The version is "HTTP/<major>" when minor is 0 and             *)
(* "HTTP/<major>.<minor>" otherwise.                                        *)
Written == rpc \in {"written", "fromstr", "done"} /\ response # NoResponse

VersionAsClaimed(v) ==
    IF v.minor = 0 THEN HttpLit \o ToDigits(v.major)
    ELSE HttpLit \o ToDigits(v.major) \o <<".">> \o ToDigits(v.minor)

StatusLineAsClaimed(r) ==
    VersionAsClaimed(r.version) \o <<SP>> \o ToDigits(status_code(r.status))
    \o <<SP>> \o get_readable_name(r.status) \o CRLF

HeaderLineAsClaimed(r, k) == k \o <<":", SP>> \o r.headers[k] \o CRLF

\* where the i-th header line starts: after the status line and the lines before it
RECURSIVE LineStart(_, _, _)
LineStart(r, ord, i) ==
    IF i = 1 THEN Len(StatusLineAsClaimed(r)) + 1
    ELSE LineStart(r, ord, i - 1) + Len(HeaderLineAsClaimed(r, ord[i - 1]))

C9_WireFormat ==
    Written =>
        LET n == Cardinality(DOMAIN response.headers)
        IN  /\ Len(order) = n
            /\ {order[i] : i \in 1..n} = DOMAIN response.headers
            /\ OccursAt(text, 1, StatusLineAsClaimed(response))
            /\ \A i \in 1..n :
                  OccursAt(text, LineStart(response, order, i),
                           HeaderLineAsClaimed(response, order[i]))
            /\ OccursAt(text, LineStart(response, order, n + 1), CRLF \o response.body)
            /\ Len(text) = LineStart(response, order, n + 1) + 1 + Len(response.body)

\* a response with minor = 0, two headers and a body has been written
C9_Witness ==
    /\ Written
    /\ response.version = [major |-> 1, minor |-> 0]
    /\ response.status = "NotFound"
    /\ Cardinality(DOMAIN response.headers) = 2
    /\ response.body = <<"h","e","l","l","o">>
    /\ OccursAt(text, 1, <<"H","T","T","P","/","1"," ","4","0","4"," ",
                           "N","o","t"," ","F","o","u","n","d",CR,LF>>)

----------------------------------------------------------------------------
(* C10: reading the status line of a written response back recovers its    *)
(* version and status code: for every HttpVersion v, minor = 0 too, parsing *)
(* the text Display writes for v gives v, and the numeric code names one    *)
(* status-code variant.                                                     *)
WrittenCode ==
    LET from == Len(vtoken) + 2
        to   == take_while_in(text, from, Digit) - 1
    IN  DigitsValue(SubSeq(text, from, to))

C10_StatusLineRoundTrip ==
    (rpc = "done" /\ response # NoResponse) =>
        /\ vtoken = fmt_version(response.version)
        /\ parsed.ok /\ parsed.version = response.version
        /\ reparsed.ok /\ reparsed.version = response.version
        /\ {s \in HttpStatusCode : status_code(s) = WrittenCode} = {response.status}

\* the part of C10 that rests on HttpVersion::from_str and the status table
FromStrRoundTrip ==
    (rpc = "done" /\ response # NoResponse) =>
        /\ vtoken = fmt_version(response.version)
        /\ parsed.ok /\ parsed.version = response.version
        /\ {s \in HttpStatusCode : status_code(s) = WrittenCode} = {response.status}

\* HttpVersion::from_str on the tokens of C2: the minor part is optional
FromStrMinorOptional ==
    (rpc = "done" /\ response = NoResponse) =>
        /\ IsDottedVersion(vtoken) => (parsed.ok /\ parsed.version = VersionOf(vtoken))
        /\ \A a \in 0..(MaxVer + 1) :
              vtoken = HttpLit \o ToDigits(a) =>
                  (parsed.ok /\ parsed.version = [major |-> a, minor |-> 0])
        /\ ~OccursAt(vtoken, 1, HttpLit) => (~parsed.ok /\ parsed.err = "InvalidVersion")

----------------------------------------------------------------------------
(* What HttpRequest::new (SpecLines) does on the texts of C3, C4 and C5:    *)
(* the second parser of the repository rejects what RequestParser lets      *)
(* through.                                                                 *)

\* no key of a parsed request holds a line feed, so none holds CR LF
LinesKeyHasNoLineFeed ==
    result = "Ok" => \A k \in DOMAIN headers : ~HasChar(k, {LF})

\* a header line without ": " is InvalidHeader, whatever follows it
LinesLineWithoutSeparatorFails ==
    ( /\ Done
      /\ WfRequestLine(parts) /\ parts.hterm = CRLF
      /\ parts.blank = CRLF \/ TailOf(parts) = <<>>
      /\ \E i \in 1..Len(parts.lines) : ~Contains(parts.lines[i].text, <<":", SP>>) )
    => result = "InvalidHeader"

\* a method token directly followed by another character is rejected
LinesMethodNeedsWhitespace ==
    ( /\ Done
      /\ UpperRun(input) \in MethodToks
      /\ UpperRunEnd(input) < Len(input)
      /\ input[UpperRunEnd(input) + 1] # SP ) => result # "Ok"

\* the request line of a well-formed message is read as RequestParser reads it
LinesRequestLine ==
    (Done /\ WellFormed(parts)) =>
        /\ result = "Ok"
        /\ method = MethodOf(parts.mtok)
        /\ path = parts.ptok
        /\ http_version = VersionOf(parts.vtok)

----------------------------------------------------------------------------
(* parse_request one character at a time: one step per turn of a loop, per  *)
(* loop exit and per return, so that every characters.next() is a step of   *)
(* its own.  pc names the rule and the place in it.                         *)

\* the texts: the malformed families, a sample of the well-formed one, and
\* every prefix of a few well-formed texts (the input ends anywhere)
WfSample ==
    {Piece(mt, <<SP>>, pt, <<SP>>, vt, CRLF, ls, CRLF, rs) :
        mt \in MethodToks, pt \in PathToks,
        vt \in {VersionText(1, 1), VersionText(12, 0)},
        ls \in SeqsUpTo({[text |-> T_HostX, term |-> CRLF]}, MaxLines),
        rs \in Bodies}

TruncFamily ==
    {Piece(MethodName["GET"], <<SP>>, <<"/">>, <<SP>>, VersionText(12, 0), CRLF,
           ls, CRLF, <<"h","e","l","l","o">>) :
        ls \in SeqsUpTo({[text |-> T_HostX, term |-> CRLF]}, 1)}

\* header sections of well-formed and malformed lines, with and without the
\* blank line and a body
StepLines ==
    {[text |-> t, term |-> CRLF] : t \in {T_HostX, T_Empty, T_Bad, T_NoSpace}}
    \cup {[text |-> T_HostX, term |-> <<LF>>]}

StepHeaderFamily ==
    {Piece(MethodName["GET"], <<SP>>, <<"/">>, <<SP>>, VersionText(1, 1), CRLF,
           ls, bl, rs) :
        ls \in SeqsUpTo(StepLines, MaxLines), bl \in Blanks,
        rs \in {<<>>, <<"h","e","l","l","o">>}}

StepMessages == WfSample \cup HeadFamily \cup StepHeaderFamily \cup CutFamily

Prefixes(t) == {SubSeq(t, 1, n) : n \in 0..Len(t)}

StepTexts(m) == IF m \in TruncFamily THEN Prefixes(Render(m)) ELSE {Render(m)}

\* the places where match_str runs, with its literal, the error returned
\* when it is false and the place reached when it is true
LitPcs == {"version.lit", "version.dot", "head.lit", "header.sep", "header.end",
           "body.lit"}

Lit(l) ==
    CASE l = "version.lit" -> HttpLit
      [] l = "version.dot" -> <<".">>
      [] l = "header.sep"  -> <<":", SP>>
      [] OTHER             -> CRLF

LitErr(l) ==
    CASE l \in {"version.lit", "version.dot"} -> "FailedToParseVersion"
      [] l = "head.lit"                       -> "FailedToParseHead"
      [] l \in {"header.sep", "header.end"}   -> "FailedToParseHeaders"
      [] OTHER                                -> "FailedToParseBody"

LitNext(l) ==
    CASE l = "version.lit" -> "version.major"
      [] l = "version.dot" -> "version.minor"
      [] l = "head.lit"    -> "headers.test"
      [] l = "header.sep"  -> "header.value"
      [] l = "header.end"  -> "headers.test"
      [] OTHER             -> "body.run"

outside == <<parts, input, responseVars, lines>>

\* characters.next(): the character under the cursor is returned, the cursor
\* moves on by one
next_char ==
    /\ HasPeek(input, pos)
    /\ taken' = Append(taken, input[pos])
    /\ pos' = pos + 1

InitSteps ==
    /\ parts \in StepMessages
    /\ input \in StepTexts(parts)
    /\ pos = 1
    /\ pc = "method.run"
    /\ method_str = <<>>
    /\ method = "none"
    /\ path = <<>>
    /\ http_version = NoVersion
    /\ headers = EmptyMap
    /\ body = <<>>
    /\ result = "none"
    /\ verEnd = 0
    /\ hdrEnd = 0
    /\ ResponseIdle
    /\ StepIdle

\* parse_method, a turn of its loop: method_str.push(next())
UpperIter ==
    /\ pc = "method.run"
    /\ HasPeek(input, pos) /\ input[pos] \in Upper
    /\ next_char
    /\ method_str' = Append(method_str, input[pos])
    /\ UNCHANGED <<pc, method, path, http_version, headers, body, result, verEnd,
                   hdrEnd, test_i, digits, ver_major, header_key, header_value, outside>>

\* parse_method, its loop ends; skip_spaces is entered
UpperExit ==
    /\ pc = "method.run"
    /\ ~(HasPeek(input, pos) /\ input[pos] \in Upper)
    /\ pc' = "method.spaces"
    /\ UNCHANGED <<pos, taken, method_str, method, path, http_version, headers, body,
                   result, verEnd, hdrEnd, test_i, digits, ver_major, header_key,
                   header_value, outside>>

\* skip_spaces, a turn of its loop
SpaceIter ==
    /\ pc \in {"method.spaces", "path.spaces"}
    /\ HasPeek(input, pos) /\ input[pos] = SP
    /\ next_char
    /\ UNCHANGED <<pc, method_str, method, path, http_version, headers, body, result,
                   verEnd, hdrEnd, test_i, digits, ver_major, header_key, header_value,
                   outside>>

\* parse_method, skip_spaces has returned: HttpMethod::from_str(&method_str)
MethodFromStr ==
    /\ pc = "method.spaces"
    /\ ~(HasPeek(input, pos) /\ input[pos] = SP)
    /\ LET r == HttpMethod_from_str(method_str)
       IN  /\ method' = r.method
           /\ pc' = IF r.ok THEN "path.run" ELSE "done"
           /\ result' = IF r.ok THEN "none" ELSE "InvalidMethod"
    /\ UNCHANGED <<pos, taken, method_str, path, http_version, headers, body, verEnd,
                   hdrEnd, test_i, digits, ver_major, header_key, header_value, outside>>

\* parse_path, a turn of its loop: path.push(next())
PathIter ==
    /\ pc = "path.run"
    /\ HasPeek(input, pos) /\ input[pos] # SP
    /\ next_char
    /\ path' = Append(path, input[pos])
    /\ UNCHANGED <<pc, method_str, method, http_version, headers, body, result,
                   verEnd, hdrEnd, test_i, digits, ver_major, header_key, header_value,
                   outside>>

\* parse_path, its loop ends; skip_spaces is entered
PathExit ==
    /\ pc = "path.run"
    /\ ~(HasPeek(input, pos) /\ input[pos] # SP)
    /\ pc' = "path.spaces"
    /\ UNCHANGED <<pos, taken, method_str, method, path, http_version, headers, body,
                   result, verEnd, hdrEnd, test_i, digits, ver_major, header_key,
                   header_value, outside>>

\* parse_path returns Ok(path); parse_version begins with match_str("HTTP/")
PathOk ==
    /\ pc = "path.spaces"
    /\ ~(HasPeek(input, pos) /\ input[pos] = SP)
    /\ pc' = "version.lit"
    /\ test_i' = 1
    /\ UNCHANGED <<pos, taken, method_str, method, path, http_version, headers, body,
                   result, verEnd, hdrEnd, digits, ver_major, header_key, header_value,
                   outside>>

\* match_str, a turn of its loop on a character that matches: next()
MatchIter ==
    /\ pc \in LitPcs
    /\ test_i <= Len(Lit(pc))
    /\ HasPeek(input, pos) /\ input[pos] = Lit(pc)[test_i]
    /\ next_char
    /\ test_i' = test_i + 1
    /\ UNCHANGED <<pc, method_str, method, path, http_version, headers, body, result,
                   verEnd, hdrEnd, digits, ver_major, header_key, header_value, outside>>

\* match_str that gives back what it matched before returning false
MatchFalse_rewind ==
    /\ pc \in LitPcs
    /\ test_i <= Len(Lit(pc))
    /\ ~(HasPeek(input, pos) /\ input[pos] = Lit(pc)[test_i])
    /\ pos' = pos - (test_i - 1)
    /\ result' = LitErr(pc)
    /\ pc' = "done"
    /\ UNCHANGED <<taken, method_str, method, path, http_version, headers, body,
                   verEnd, hdrEnd, test_i, digits, ver_major, header_key, header_value,
                   outside>>

\* match_str returns false (mismatch or end of input); the caller returns
\* its Err and parse_request returns it (the ? operator)
MatchFalse ==
    /\ pc \in LitPcs
    /\ test_i <= Len(Lit(pc))
    /\ ~(HasPeek(input, pos) /\ input[pos] = Lit(pc)[test_i])
    /\ result' = LitErr(pc)
    /\ pc' = "done"
    /\ UNCHANGED <<pos, taken, method_str, method, path, http_version, headers, body,
                   verEnd, hdrEnd, test_i, digits, ver_major, header_key, header_value,
                   outside>>

\* match_str returns true; the caller goes on (after "\r\n" of a header line:
\* parse_header returns Ok((key, value)) and parse_headers inserts it)
MatchTrue ==
    /\ pc \in LitPcs
    /\ test_i > Len(Lit(pc))
    /\ pc' = LitNext(pc)
    /\ test_i' = 1
    /\ digits' = IF pc \in {"version.lit", "version.dot"} THEN <<>> ELSE digits
    /\ headers' = IF pc = "header.end"
                  THEN insert(headers, header_key, header_value) ELSE headers
    /\ UNCHANGED <<pos, taken, method_str, method, path, http_version, body, result,
                   verEnd, hdrEnd, ver_major, header_key, header_value, outside>>

\* parse_usize, a turn of its loop: digits.push(next())
DigitIter ==
    /\ pc \in {"version.major", "version.minor"}
    /\ HasPeek(input, pos) /\ input[pos] \in Digit
    /\ next_char
    /\ digits' = Append(digits, input[pos])
    /\ UNCHANGED <<pc, method_str, method, path, http_version, headers, body, result,
                   verEnd, hdrEnd, test_i, ver_major, header_key, header_value, outside>>

\* parse_usize, its loop ends: usize::from_str_radix(&digits, 10); after the
\* major number match_str(".") follows, after the minor one parse_version
\* returns Ok(HttpVersion { major, minor }) and match_str("\r\n") follows
UsizeFromStr ==
    /\ pc \in {"version.major", "version.minor"}
    /\ ~(HasPeek(input, pos) /\ input[pos] \in Digit)
    /\ LET r == from_str_radix(digits, UsizeMaxDigits)
       IN  /\ result' = IF r.ok THEN "none" ELSE "ParseIntError"
           /\ pc' = IF ~r.ok THEN "done"
                    ELSE IF pc = "version.major" THEN "version.dot" ELSE "head.lit"
           /\ ver_major' = IF r.ok /\ pc = "version.major" THEN r.val ELSE ver_major
           /\ http_version' = IF r.ok /\ pc = "version.minor"
                              THEN [major |-> ver_major, minor |-> r.val]
                              ELSE http_version
           /\ verEnd' = IF r.ok /\ pc = "version.minor" THEN pos ELSE verEnd
    /\ test_i' = 1
    /\ UNCHANGED <<pos, taken, method_str, method, path, headers, body, hdrEnd,
                   digits, header_key, header_value, outside>>

\* parse_headers, its loop test is true: parse_header is entered
HeadersIter ==
    /\ pc = "headers.test"
    /\ headers_continue(input, pos)
    /\ pc' = "header.key"
    /\ header_key' = <<>>
    /\ header_value' = <<>>
    /\ UNCHANGED <<pos, taken, method_str, method, path, http_version, headers, body,
                   result, verEnd, hdrEnd, test_i, digits, ver_major, outside>>

\* parse_headers, its loop ends: Ok(headers); parse_body is entered
HeadersExit ==
    /\ pc = "headers.test"
    /\ ~headers_continue(input, pos)
    /\ pc' = "body.test"
    /\ hdrEnd' = pos
    /\ UNCHANGED <<pos, taken, method_str, method, path, http_version, headers, body,
                   result, verEnd, test_i, digits, ver_major, header_key, header_value,
                   outside>>

\* parse_header, a turn of the key loop: header_key.push(next())
KeyIter ==
    /\ pc = "header.key"
    /\ HasPeek(input, pos) /\ input[pos] # ":"
    /\ next_char
    /\ header_key' = Append(header_key, input[pos])
    /\ UNCHANGED <<pc, method_str, method, path, http_version, headers, body, result,
                   verEnd, hdrEnd, test_i, digits, ver_major, header_value, outside>>

\* parse_header, the key loop ends; match_str(": ") follows
KeyExit ==
    /\ pc = "header.key"
    /\ ~(HasPeek(input, pos) /\ input[pos] # ":")
    /\ pc' = "header.sep"
    /\ test_i' = 1
    /\ UNCHANGED <<pos, taken, method_str, method, path, http_version, headers, body,
                   result, verEnd, hdrEnd, digits, ver_major, header_key, header_value,
                   outside>>

\* parse_header, a turn of the value loop: header_value.push(next())
ValueIter ==
    /\ pc = "header.value"
    /\ HasPeek(input, pos) /\ input[pos] \notin {CR, LF}
    /\ next_char
    /\ header_value' = Append(header_value, input[pos])
    /\ UNCHANGED <<pc, method_str, method, path, http_version, headers, body, result,
                   verEnd, hdrEnd, test_i, digits, ver_major, header_key, outside>>

\* parse_header, the value loop ends; match_str("\r\n") follows
ValueExit ==
    /\ pc = "header.value"
    /\ ~(HasPeek(input, pos) /\ input[pos] \notin {CR, LF})
    /\ pc' = "header.end"
    /\ test_i' = 1
    /\ UNCHANGED <<pos, taken, method_str, method, path, http_version, headers, body,
                   result, verEnd, hdrEnd, digits, ver_major, header_key, header_value,
                   outside>>

\* parse_body, peek().is_some(): match_str("\r\n") follows
BodyEnter ==
    /\ pc = "body.test"
    /\ HasPeek(input, pos)
    /\ pc' = "body.lit"
    /\ test_i' = 1
    /\ UNCHANGED <<pos, taken, method_str, method, path, http_version, headers, body,
                   result, verEnd, hdrEnd, digits, ver_major, header_key, header_value,
                   outside>>

\* parse_body, nothing is left: Ok(String::new()); parse_request returns Ok
BodyEmpty ==
    /\ pc = "body.test"
    /\ ~HasPeek(input, pos)
    /\ body' = <<>>
    /\ result' = "Ok"
    /\ pc' = "done"
    /\ UNCHANGED <<pos, taken, method_str, method, path, http_version, headers,
                   verEnd, hdrEnd, test_i, digits, ver_major, header_key, header_value,
                   outside>>

\* parse_body, a turn of its loop: body.push(c) for the c next() returned
BodyIter ==
    /\ pc = "body.run"
    /\ next_char
    /\ body' = Append(body, input[pos])
    /\ UNCHANGED <<pc, method_str, method, path, http_version, headers, result,
                   verEnd, hdrEnd, test_i, digits, ver_major, header_key, header_value,
                   outside>>

\* parse_body, next() returns None: Ok(body); parse_request returns Ok
BodyExit ==
    /\ pc = "body.run"
    /\ ~HasPeek(input, pos)
    /\ result' = "Ok"
    /\ pc' = "done"
    /\ UNCHANGED <<pos, taken, method_str, method, path, http_version, headers, body,
                   verEnd, hdrEnd, test_i, digits, ver_major, header_key, header_value,
                   outside>>

NextSteps ==
    \/ UpperIter
    \/ UpperExit
    \/ SpaceIter
    \/ MethodFromStr
    \/ PathIter
    \/ PathExit
    \/ PathOk
    \/ MatchIter
    \/ MatchFalse
    \/ MatchTrue
    \/ DigitIter
    \/ UsizeFromStr
    \/ HeadersIter
    \/ HeadersExit
    \/ KeyIter
    \/ KeyExit
    \/ ValueIter
    \/ ValueExit
    \/ BodyEnter
    \/ BodyEmpty
    \/ BodyIter
    \/ BodyExit

SpecSteps == InitSteps /\ [][NextSteps]_vars

\* the call runs to its return: a step that can be taken is taken
SpecStepsFair == SpecSteps /\ WF_vars(NextSteps)

----------------------------------------------------------------------------
(* parse_request as one function of the text, put together from the rule    *)
(* operators; the character steps must arrive at what it returns.           *)

\* parse_headers: the loop over parse_header
RECURSIVE parse_headers(_, _, _)
parse_headers(inp, p, h) ==
    IF headers_continue(inp, p)
    THEN LET r == parse_header(inp, p)
         IN  IF r.ok THEN parse_headers(inp, r.pos, insert(h, r.key, r.val))
             ELSE [ok |-> FALSE, headers |-> EmptyMap, pos |-> r.pos]
    ELSE [ok |-> TRUE, headers |-> h, pos |-> p]

Outcome(res, m, pt, v, h, b, p) ==
    [result |-> res, method |-> m, path |-> pt, http_version |-> v,
     headers |-> h, body |-> b, pos |-> p]

parse_request(inp) ==
    LET m  == parse_method(inp, 1)
        pt == parse_path(inp, m.pos)
        v  == parse_version(inp, pt.pos)
        hd == match_str(inp, v.pos, CRLF)
        hs == parse_headers(inp, hd.pos, EmptyMap)
        b  == parse_body(inp, hs.pos)
        Err(e, p) == Outcome(e, "none", <<>>, NoVersion, EmptyMap, <<>>, p)
    IN  IF ~m.ok THEN Err("InvalidMethod", m.pos)
        ELSE IF ~v.ok THEN Err(v.err, v.pos)
        ELSE IF ~hd.ok THEN Err("FailedToParseHead", hd.pos)
        ELSE IF ~hs.ok THEN Err("FailedToParseHeaders", hs.pos)
        ELSE IF ~b.ok THEN Err("FailedToParseBody", b.pos)
        ELSE Outcome("Ok", m.method, pt.path, v.version, hs.headers, b.body, b.pos)

\* the character steps end with the outcome, and at the cursor, that the
\* rule operators compute
StepsAgreeWithRules ==
    pc = "done" =>
        LET r == parse_request(input)
        IN  /\ result = r.result
            /\ pos = r.pos
            /\ result = "Ok" =>
                   /\ method = r.method
                   /\ path = r.path
                   /\ http_version = r.http_version
                   /\ headers = r.headers
                   /\ body = r.body

----------------------------------------------------------------------------
(* C11 *)

\* the variants of Error that parse_request returns
Errors == {"InvalidMethod", "ParseIntError", "FailedToParseVersion",
           "FailedToParseHead", "FailedToParseHeaders", "FailedToParseBody"}

\* what next() has returned is the text before the cursor, each character
\* once and in order; the call has returned exactly when it has an outcome
ForwardPass ==
    /\ pos \in 1..(Len(input) + 1)
    /\ taken = SubSeq(input, 1, pos - 1)
    /\ result \in {"none", "Ok"} \cup Errors
    /\ (pc = "done") <=> (result # "none")

\* a step is taken only while no outcome has been returned; it consumes one
\* character or none, a turn of a loop (a step that comes back to the same
\* place) exactly one; the step that returns the outcome consumes none
ForwardStep ==
    /\ result = "none"
    /\ pos' \in {pos, pos + 1}
    /\ pc' = pc => pos' = pos + 1
    /\ result' # "none" => pos' = pos /\ pc' = "done"

\* C11: parse_request is a total single forward pass.  On every text the
\* call ends; the cursor moves only forward, one character per turn of a
\* loop, and no character is taken twice; the call returns one outcome, Ok
\* or one Error; once a rule has failed, also after match_str consumed a part
\* of its literal, no character is consumed and no rule runs any more.
C11_SingleForwardPass ==
    /\ []ForwardPass
    /\ [][ForwardStep]_vars
    /\ <>(pc = "done")

\* match_str("HTTP/") has consumed a part of its literal and returned false:
\* the call has ended with FailedToParseVersion and text is left unread
C11_Witness ==
    /\ pc = "done"
    /\ result = "FailedToParseVersion"
    /\ test_i > 1 /\ test_i <= Len(HttpLit)
    /\ pos > 1 /\ HasPeek(input, pos)
    /\ taken = SubSeq(input, 1, pos - 1)
    /\ http_version = NoVersion /\ headers = EmptyMap /\ body = <<>>

====
